---- MODULE Spec2Model ----
(***************************************************************************)
(* Model of the Kconfig tooling of CubeMot: tools/gen_config.py            *)
(* (generate-config and generate-headers) and tools/gen_multiconfig.py.    *)
(*                                                                         *)
(* Text is modelled structurally.  A path is the sequence of its           *)
(* components ("drivers/gpio/Kconfig" is <<"drivers","gpio","Kconfig">>),  *)
(* a symbol value is the sequence of its characters, a file is the         *)
(* sequence of its lines and a line is a record naming its parts.  Header  *)
(* paths are taken relative to the output directory; a path whose first    *)
(* component is "/" is absolute.                                           *)
(*                                                                         *)
(* A behaviour is one command line run on one symbol tree, and run again   *)
(* after it has succeeded.  kconfiglib is modelled by what the tools read  *)
(* from it: the symbols in declaration order with their resolved values    *)
(* and declaring files, and Kconfig._write_if_changed.                     *)
(***************************************************************************)
EXTENDS Naturals, Sequences, FiniteSets

\* ---------------------------------------------------------------- bounds
\* Most symbols in a symbol tree, and most invocations in a row.
MaxSyms == 3
MaxRuns == 2
\* Most symbols in a symbol tree generate-config is run on.
MaxConfigSyms == 1

\* ------------------------------------------------------------ python bits
None == "None"

\* Python truthiness of an optional string (None and "" are falsy).
Truthy(s) == s # None /\ s # ""

\* str.startswith(prefix) for a prefix that is a directory name and a "/".
StartsWithDir(path, dir) == Len(path) >= 2 /\ path[1] = dir

\* os.path.dirname
Dirname(path) == SubSeq(path, 1, Len(path) - 1)

\* os.path.isabs
IsAbs(path) == path # <<>> /\ path[1] = "/"

\* os.path.join(a, b): b when it is absolute, else b under a.
os_path_join(a, b) == IF IsAbs(b) THEN b ELSE a \o b

\* ------------------------------------------------------------- kconfiglib
BOOL     == "bool"
TRISTATE == "tristate"
STRING_T == "string"
INT      == "int"
HEX      == "hex"
_BOOL_TRISTATE == {BOOL, TRISTATE}

config_prefix == "CONFIG_"

\* Symbol.tri_value: 0, 1 or 2 for bool/tristate, 0 for every other type.
tri_value(sym) == IF sym.type \in _BOOL_TRISTATE THEN sym.tri ELSE 0

\* Symbol.str_value: "n", "m", "y" for bool/tristate, else the literal text.
str_value(sym) ==
    IF sym.type \in _BOOL_TRISTATE
    THEN << <<"n">>, <<"m">>, <<"y">> >>[sym.tri + 1]
    ELSE sym.val

\* kconfiglib.escape: backslash and double quote get a backslash before them.
RECURSIVE escape(_)
escape(s) ==
    IF s = <<>> THEN <<>>
    ELSE (IF Head(s) \in {"\\", "\""} THEN <<"\\", Head(s)>> ELSE <<Head(s)>>)
         \o escape(Tail(s))

\* ------------------------------------------------------ the Kconfig files
RootK    == <<"Kconfig">>
BoardsK  == <<"boards", "Kconfig">>
GpioK    == <<"drivers", "gpio", "Kconfig">>
GpioAdcK == <<"drivers", "gpio", "Kconfig.adc">>
AppK     == <<"application", "Kconfig">>
LibK     == <<"lib", "Kconfig">>

\* The prompt of the menuconfig node enclosing the symbols of a Kconfig file
\* (None: the file's symbols sit under no menuconfig node).
MenuOfFile(file) ==
    CASE file = BoardsK  -> "Board"
      [] file = GpioAdcK -> "ADC"
      [] OTHER           -> None

\* ------------------------------------------------------------ the symbols
LedNames   == {"BOARD_HAS_LED1", "BOARD_HAS_LED2", "BOARD_HAS_LED3"}
OtherNames == {"FOO"}
SymNames   == LedNames \cup OtherNames

\* The help text of a symbol's first node, split at its line ends (no lines:
\* the node has no help).
HelpOf(name) ==
    IF name = "FOO" THEN <<"Foo feature", "", "second paragraph">> ELSE <<>>

Sym(name, type, tri, val, w2c, nodes) ==
    [name |-> name, type |-> type, tri |-> tri, val |-> val,
     w2c |-> w2c, nodes |-> nodes, help |-> HelpOf(name)]

\* Resolved values a symbol can have: <<type, tri, text, _write_to_conf>>.
\* A bool has no "m"; a symbol that is not off is always written to the
\* configuration; a non-bool's tri is 0.
BoolValues == {<<BOOL, 2, <<>>, TRUE>>, <<BOOL, 0, <<>>, TRUE>>,
               <<BOOL, 0, <<>>, FALSE>>}
TristateValues == {<<TRISTATE, 1, <<>>, TRUE>>}
TextValues == {<<STRING_T, 0, <<"y">>, TRUE>>,
               <<HEX, 0, <<"2", "a">>, TRUE>>,
               <<HEX, 0, <<"0", "X", "2", "A">>, TRUE>>,
               <<INT, 0, <<"4", "2">>, TRUE>>}

AllValues == BoolValues \cup TristateValues \cup TextValues
AllNodes  == {<<RootK>>, <<BoardsK>>, <<GpioK>>, <<GpioAdcK>>, <<AppK>>,
              <<LibK>>, <<GpioK, BoardsK>>, <<LibK, BoardsK>>}

\* The symbols the trees are made of.  A BOARD_HAS_LEDn symbol is a visible
\* bool of boards/Kconfig; BOARD_HAS_LED1 may also be a tristate there, or an
\* enabled bool of drivers/gpio/Kconfig.  FOO takes every value in
\* drivers/gpio/Kconfig.adc and, enabled, every other list of declaring files.
SymPool ==
    {Sym(n, BOOL, t, <<>>, TRUE, <<BoardsK>>) : n \in LedNames, t \in {0, 2}}
    \cup
    {Sym("BOARD_HAS_LED1", TRISTATE, 1, <<>>, TRUE, <<BoardsK>>),
     Sym("BOARD_HAS_LED1", BOOL, 2, <<>>, TRUE, <<GpioK>>)}
    \cup
    {Sym(n, v[1], v[2], v[3], v[4], <<GpioAdcK>>) :
        n \in OtherNames, v \in AllValues}
    \cup
    {Sym(n, BOOL, 2, <<>>, TRUE, nl) :
        n \in OtherNames, nl \in AllNodes \ {<<BoardsK>>, <<GpioK>>}}

\* The place of a LED symbol among the LED symbols (0: not a LED symbol).
LedNo(name) ==
    CASE name = "BOARD_HAS_LED1" -> 1
      [] name = "BOARD_HAS_LED2" -> 2
      [] name = "BOARD_HAS_LED3" -> 3
      [] OTHER -> 0

\* Kconfig.unique_defined_syms: the defined symbols in declaration order,
\* each once.  The LED symbols are declared in the order of their numbers.
Trees ==
    {t \in UNION {[1..n -> SymPool] : n \in 1..MaxSyms} :
        \A i, j \in DOMAIN t :
            i < j => /\ t[i].name # t[j].name
                     /\ (LedNo(t[i].name) > 0 /\ LedNo(t[j].name) > 0
                            => LedNo(t[i].name) < LedNo(t[j].name))}

\* ------------------------------------------------------------ file text
\* A line of a generated file.  k is its kind; a "define" line is
\* "#define <pfx><name><sfx><sep spaces><val>", val in double quotes when
\* quoted; the other kinds carry their text in name.
Line(k, name) ==
    [k |-> k, pfx |-> "", name |-> name, sfx |-> "", sep |-> 0,
     val |-> <<>>, quoted |-> FALSE]
Define(pfx, name, sfx, sep, val, quoted) ==
    [k |-> "define", pfx |-> pfx, name |-> name, sfx |-> sfx, sep |-> sep,
     val |-> val, quoted |-> quoted]
Blank == Line("blank", "")

\* str(n) for the one-digit numbers the tools print.
Str(n) == << <<"0">>, <<"1">>, <<"2">>, <<"3">>, <<"4">>, <<"5">>, <<"6">>,
             <<"7">>, <<"8">>, <<"9">> >>[n + 1]

\* s.split('\n'), keeping the lines with line.strip() non-empty.
NonBlank(lines) == SelectSeq(lines, LAMBDA l : l # "")

\* ==================================================== tools/gen_config.py
OUTPUT_FILE_MAPPING ==
    [system_config |-> [file |-> <<"boards", "system_config.h">>,
                        guard |-> "SYSTEM_CONFIG_H",
                        comment |-> "System Configuration"],
     board_config  |-> [file |-> <<"boards", "board_config.h">>,
                        guard |-> "BOARD_CONFIG_H",
                        comment |-> "Board Configuration"],
     driver_config |-> [file |-> <<"drivers", "driver_config.h">>,
                        guard |-> "DRIVER_CONFIG_H",
                        comment |-> "Driver Configuration"],
     app_config    |-> [file |-> <<"application", "app_config.h">>,
                        guard |-> "APP_CONFIG_H",
                        comment |-> "Application Configuration"]]

\* sorted() of the config types (string order).
SortedConfigTypes ==
    <<"app_config", "board_config", "driver_config", "system_config">>

get_value_for_header(sym) ==
    IF sym.type = BOOL
    THEN (IF tri_value(sym) = 2 THEN <<"1">> ELSE <<"0">>)
    ELSE IF sym.type = TRISTATE
    THEN (IF tri_value(sym) = 2 THEN <<"1">>
          ELSE IF tri_value(sym) = 1 THEN <<"0">> ELSE <<"0">>)
    ELSE str_value(sym)

\* get_symbol_location_type with the results of the boards/ and drivers/
\* branches exchanged.
get_symbol_location_type_swapped(sym) ==
    IF sym.nodes = <<>> THEN None
    ELSE LET filename == sym.nodes[1] IN
         IF filename = <<"Kconfig">> THEN "system_config"
         ELSE IF StartsWithDir(filename, "boards") THEN "driver_config"
         ELSE IF StartsWithDir(filename, "drivers") THEN "board_config"
         ELSE IF StartsWithDir(filename, "application") THEN "app_config"
         ELSE None

get_symbol_location_type(sym) ==
    IF sym.nodes = <<>> THEN None
    ELSE LET filename == sym.nodes[1] IN
         IF filename = <<"Kconfig">> THEN "system_config"
         ELSE IF StartsWithDir(filename, "boards") THEN "board_config"
         ELSE IF StartsWithDir(filename, "drivers") THEN "driver_config"
         ELSE IF StartsWithDir(filename, "application") THEN "app_config"
         ELSE None

\* grouped_symbols[config_type]: the symbols of the type, in tree order.
group_symbols_by_location(syms, config_type) ==
    SelectSeq(syms, LAMBDA s : get_symbol_location_type(s) = config_type)

\* The menu key of a symbol: the prompts of the menuconfig ancestors of its
\* first node joined with "/", "Other" when there is none.
MenuKey(sym) ==
    LET m == MenuOfFile(sym.nodes[1]) IN IF m = None THEN "Other" ELSE m

\* The keys of symbols_by_menu, in insertion order.
RECURSIVE MenuKeys(_)
MenuKeys(symbols) ==
    IF symbols = <<>> THEN <<>>
    ELSE LET rest == MenuKeys(SubSeq(symbols, 1, Len(symbols) - 1))
             key  == MenuKey(symbols[Len(symbols)])
         IN  IF \E i \in DOMAIN rest : rest[i] = key THEN rest
             ELSE Append(rest, key)

\* What generate_header_file writes for one symbol.
SymbolLines(sym) ==
    LET value == get_value_for_header(sym)
        help  == IF sym.nodes # <<>> /\ sym.help # <<>>
                 THEN [i \in DOMAIN NonBlank(sym.help) |->
                          Line("comment", NonBlank(sym.help)[i])]
                 ELSE <<>>
        macro == IF sym.type = STRING_T
                 THEN Define("", sym.name, "", 1, value, TRUE)
                 ELSE Define("", sym.name, "", 2, value, FALSE)
    IN  help \o <<macro, Blank>>

RECURSIVE Flatten(_)
Flatten(seqs) ==
    IF seqs = <<>> THEN <<>> ELSE Head(seqs) \o Flatten(Tail(seqs))

\* What generate_header_file writes for one menu group.
MenuLines(menu_name, symbols) ==
    LET menu_symbols == SelectSeq(symbols, LAMBDA s : MenuKey(s) = menu_name)
    IN  (IF menu_name # "Other" THEN <<Line("comment", menu_name)>> ELSE <<>>)
        \o Flatten([i \in DOMAIN menu_symbols |-> SymbolLines(menu_symbols[i])])
        \o <<Blank>>

\* kconf.syms: the names of the symbols of the tree.
SymsNames(syms) == {syms[i].name : i \in DOMAIN syms}

\* kconf.syms[name], for a name in kconf.syms.
SymsGet(syms, name) == syms[CHOOSE i \in DOMAIN syms : syms[i].name = name]

\* kconf.syms.get(name) and kconf.syms.get(name).tri_value == 2
LedOn(syms, name) ==
    name \in SymsNames(syms) /\ tri_value(SymsGet(syms, name)) = 2

\* led_count with the third test a copy of the second.
led_count_led2_twice(syms) ==
    (IF LedOn(syms, "BOARD_HAS_LED1") THEN 1 ELSE 0)
    + (IF LedOn(syms, "BOARD_HAS_LED2") THEN 1 ELSE 0)
    + (IF LedOn(syms, "BOARD_HAS_LED2") THEN 1 ELSE 0)

led_count(syms) ==
    (IF LedOn(syms, "BOARD_HAS_LED1") THEN 1 ELSE 0)
    + (IF LedOn(syms, "BOARD_HAS_LED2") THEN 1 ELSE 0)
    + (IF LedOn(syms, "BOARD_HAS_LED3") THEN 1 ELSE 0)

\* The lines generate_header_file writes, in order, for the symbols of one
\* config type (syms: every symbol of the tree).
HeaderLines(syms, symbols, config_type) ==
    LET info == OUTPUT_FILE_MAPPING[config_type]
        keys == MenuKeys(symbols)
    IN  <<Line("banner", info.comment), Blank,
          Line("ifndef", info.guard), Line("guard", info.guard), Blank,
          Line("comment", info.comment), Blank>>
        \o Flatten([i \in DOMAIN keys |-> MenuLines(keys[i], symbols)])
        \o (IF config_type = "board_config"
            THEN <<Blank, Define("", "BOARD_LED_COUNT", "", 1,
                                 Str(led_count(syms)), FALSE)>>
            ELSE <<>>)
        \o <<Line("endif", info.guard)>>

\* ================================================ tools/gen_multiconfig.py
\* files_to_symbols is an insertion-ordered dict: here the sequence of its
\* items, [file |-> key, symbols |-> value].
AddToMap(map, filename, sym) ==
    IF \E i \in DOMAIN map : map[i].file = filename
    THEN [i \in DOMAIN map |->
            IF map[i].file = filename
            THEN [map[i] EXCEPT !.symbols = Append(@, sym)]
            ELSE map[i]]
    ELSE Append(map, [file |-> filename, symbols |-> <<sym>>])

\* The inner loop of _build_file_to_symbols_map over the first n nodes of sym.
RECURSIVE AddNodes(_, _, _)
AddNodes(map, sym, n) ==
    IF n = 0 THEN map
    ELSE AddToMap(AddNodes(map, sym, n - 1), sym.nodes[n], sym)

\* The outer loop over the first n symbols of the tree.
RECURSIVE BuildMap(_, _)
BuildMap(syms, n) ==
    IF n = 0 THEN <<>>
    ELSE LET map == BuildMap(syms, n - 1)
             sym == syms[n]
         IN  IF ~sym.w2c THEN map ELSE AddNodes(map, sym, Len(sym.nodes))

_build_file_to_symbols_map(syms) == BuildMap(syms, Len(syms))

MapHas(map, filename) == \E i \in DOMAIN map : map[i].file = filename

_get_header_path(kconfig_path) ==
    LET kconfig_dir == Dirname(kconfig_path) IN
    IF kconfig_dir = <<>> THEN <<"config.h">>
    ELSE kconfig_dir \o <<"config.h">>

\* os.getenv("KCONFIG_AUTOHEADER_HEADER", ""): the variable is not set.
KCONFIG_AUTOHEADER_HEADER == ""

\* val.startswith(("0x", "0X"))
StartsWith0x(val) == Len(val) >= 2 /\ val[1] = "0" /\ val[2] \in {"x", "X"}

\* The chunk _generate_header_content adds for one symbol (none or one line).
SymbolChunk(sym) ==
    LET val == str_value(sym) IN
    IF ~sym.w2c THEN <<>>
    ELSE IF sym.type \in _BOOL_TRISTATE
    THEN (IF val = <<"y">>
          THEN <<Define(config_prefix, sym.name, "", 1, <<"1">>, FALSE)>>
          ELSE IF val = <<"m">>
          THEN <<Define(config_prefix, sym.name, "_MODULE", 1, <<"1">>, FALSE)>>
          ELSE <<>>)
    ELSE IF sym.type = STRING_T
    THEN <<Define(config_prefix, sym.name, "", 1, escape(val), TRUE)>>
    ELSE <<Define(config_prefix, sym.name, "", 1,
                  IF sym.type = HEX /\ ~StartsWith0x(val)
                  THEN <<"0", "x">> \o val ELSE val,
                  FALSE)>>

_generate_header_content(symbols) ==
    (IF KCONFIG_AUTOHEADER_HEADER # ""
     THEN <<Line("header", KCONFIG_AUTOHEADER_HEADER)>> ELSE <<>>)
    \o Flatten([i \in DOMAIN symbols |-> SymbolChunk(symbols[i])])

\* The pairs the --check-symbols loop appends for the symbols of one file.
EnabledPairs(symbols) ==
    LET on == SelectSeq(symbols,
                        LAMBDA s : str_value(s) = <<"y">> \/ str_value(s) = <<"m">>)
    IN  [i \in DOMAIN on |-> [name |-> on[i].name, val |-> str_value(on[i])]]

\* ------------------------------------ kconfiglib: the configuration file
\* The lines of a configuration file: "<pfx><name>=<val>", val in double
\* quotes when quoted, and "# <pfx><name> is not set".
Assign(name, val, quoted) ==
    [k |-> "assign", pfx |-> config_prefix, name |-> name, sfx |-> "",
     sep |-> 0, val |-> val, quoted |-> quoted]
NotSet(name) ==
    [k |-> "unset", pfx |-> config_prefix, name |-> name, sfx |-> "",
     sep |-> 0, val |-> <<>>, quoted |-> FALSE]

\* Symbol.config_string: nothing for a symbol that is not written to the
\* configuration.
config_string(sym) ==
    LET val == str_value(sym) IN
    IF ~sym.w2c THEN <<>>
    ELSE IF sym.type \in _BOOL_TRISTATE
    THEN (IF val = <<"n">> THEN <<NotSet(sym.name)>>
          ELSE <<Assign(sym.name, val, FALSE)>>)
    ELSE IF sym.type = STRING_T
    THEN <<Assign(sym.name, escape(val), TRUE)>>
    ELSE <<Assign(sym.name, val, FALSE)>>

\* Kconfig._config_contents: the config_string of every symbol, in order.
_config_contents(syms) ==
    Flatten([i \in DOMAIN syms |-> config_string(syms[i])])

\* kconfiglib.unescape: a backslash goes and the character after it stays.
RECURSIVE unescape(_)
unescape(s) ==
    IF s = <<>> THEN <<>>
    ELSE IF Head(s) = "\\" /\ Len(s) >= 2
    THEN <<s[2]>> \o unescape(Tail(Tail(s)))
    ELSE <<Head(s)>> \o unescape(Tail(s))

\* What one line of a loaded configuration file does to a symbol.  The line
\* of another symbol does nothing, nor does a line for a symbol the user
\* cannot set (the symbols written to the configuration are the visible
\* ones); "is not set" turns a bool or tristate off and is skipped for the
\* other types; a bool takes n and y, a tristate n, m and y, a string a
\* quoted value, an int or hex the text.
_load_line(sym, line) ==
    IF line.name # sym.name \/ ~sym.w2c THEN sym
    ELSE IF line.k = "unset"
    THEN (IF sym.type \in _BOOL_TRISTATE THEN [sym EXCEPT !.tri = 0] ELSE sym)
    ELSE IF line.k # "assign" THEN sym
    ELSE IF sym.type \in _BOOL_TRISTATE
    THEN (CASE line.val = <<"n">> -> [sym EXCEPT !.tri = 0]
            [] line.val = <<"y">> -> [sym EXCEPT !.tri = 2]
            [] line.val = <<"m">> /\ sym.type = TRISTATE -> [sym EXCEPT !.tri = 1]
            [] OTHER -> sym)
    ELSE IF sym.type = STRING_T
    THEN (IF line.quoted THEN [sym EXCEPT !.val = unescape(line.val)] ELSE sym)
    ELSE [sym EXCEPT !.val = line.val]

\* Kconfig._load_config: the lines of the file, one after the other.
RECURSIVE _load_config(_, _)
_load_config(syms, lines) ==
    IF lines = <<>> THEN syms
    ELSE _load_config([i \in DOMAIN syms |-> _load_line(syms[i], Head(lines))],
                      Tail(lines))

\* ============================================================== the state
VARIABLES
    tree,             \* kconf.unique_defined_syms
    fs,               \* the files: path -> file
    tool,             \* "gen_config" (gen_config.py generate-headers),
                      \* "generate-config" (gen_config.py generate-config)
                      \* or "gen_multiconfig"
    args,             \* the parsed command line
    pc,               \* where the process is
    todo,             \* the groups the generation loop has still to visit
    generated_files,  \* generated_files of the run
    enabled_symbols,  \* enabled_symbols of the run
    stdout,           \* what the run has printed to stdout
    stderr,           \* what the run has printed to stderr
    exit_status,      \* the exit status of the process, once it has exited
    written,          \* the paths the run has opened for writing, in order
    failed,           \* whether an operation of the run has failed
    runs,             \* the number of the run (the same command line again)
    emits,            \* the calls of the header emitter and writer in the run
    pre,              \* fs as it was when the run started
    loaded            \* the files Kconfig.load_config has read in the run

vars == <<tree, fs, tool, args, pc, todo, generated_files, enabled_symbols,
          stdout, stderr, exit_status, written, failed, runs, emits, pre,
          loaded>>

\* ------------------------------------------------------------ file system
File(lines) == [exists |-> TRUE, lines |-> lines]
Absent == [exists |-> FALSE, lines |-> <<>>]
Stale  == File(<<Line("comment", "stale")>>)

KconfigFiles == {RootK, BoardsK, GpioK, GpioAdcK, AppK, LibK}
ConfigTypes  == {"system_config", "board_config", "driver_config", "app_config"}

OutPaths ==
    {OUTPUT_FILE_MAPPING[t].file : t \in ConfigTypes}
    \cup {_get_header_path(f) : f \in KconfigFiles}

\* os.getcwd() when a tool starts.
Cwd == <<"/", "proj">>

\* The configuration file of the build: config_file of generate-headers,
\* output_config of generate-config, standard_config_filename() of
\* gen_multiconfig.  write_config keeps the file it replaces as ".config.old".
DotConfig    == <<".config">>
DotConfigOld == <<".config.old">>
CwdConfig    == os_path_join(Cwd, DotConfig)

\* The root Kconfig file of a tree that lives in a directory below Cwd, the
\* defconfig argument, and no file (None).
SubK      == <<"kconfig", "Kconfig">>
Defconfig == <<"defconfig">>
NoFile    == <<>>

\* The places a defconfig may be in: Cwd and the directory of SubK.
DefconfigPaths ==
    {os_path_join(Cwd, Defconfig), os_path_join(Cwd, Dirname(SubK) \o Defconfig)}

\* A defconfig turns one bool off: FOO the one in Cwd, BOARD_HAS_LED1 the one
\* next to SubK.
DefconfigFile(path) ==
    File(<<NotSet(IF path = os_path_join(Cwd, Defconfig)
                  THEN "FOO" ELSE "BOARD_HAS_LED1")>>)

Paths ==
    OutPaths \cup {CwdConfig, os_path_join(Cwd, DotConfigOld)}
             \cup DefconfigPaths

\* ----------------------------------------------------------- command line
NoFragment == <<>>
NopeK      == <<"nope", "Kconfig">>

McArgs(symbol, fragment, check_symbols, print_headers) ==
    [symbol |-> symbol, kconfig_fragment |-> fragment,
     check_symbols |-> check_symbols, print_headers |-> print_headers]

\* The arguments of generate-config.
CfgArgs(kconfig_root, output_config, defconfig_file) ==
    [kconfig_root |-> kconfig_root, output_config |-> output_config,
     defconfig_file |-> defconfig_file]

CommandLines ==
    {<<"gen_config", McArgs(None, NoFragment, FALSE, FALSE)>>}
    \cup {<<"gen_multiconfig", McArgs(s, NoFragment, FALSE, FALSE)>> :
            s \in {"", "FOO", "NOPE"}}
    \cup {<<"gen_multiconfig", McArgs(None, f, c, c)>> :
            f \in {NoFragment, GpioK, NopeK}, c \in BOOLEAN}
    \cup {<<"generate-config", CfgArgs(k, DotConfig, d)>> :
            k \in {RootK, SubK},
            d \in {NoFile, Defconfig, os_path_join(Cwd, Defconfig)}}

\* The sets of input files a command line is run with.  generate-config is
\* run with every set of defconfigs when it is given one; generate-headers
\* and gen_multiconfig without options are run with and without the
\* configuration file, gen_multiconfig with options is run with it.
Inputs(t, a) ==
    CASE t = "generate-config" ->
            IF a.defconfig_file = NoFile THEN {{}} ELSE SUBSET DefconfigPaths
      [] t = "gen_multiconfig" /\ a # McArgs(None, NoFragment, FALSE, FALSE) ->
            {{CwdConfig}}
      [] OTHER -> {{}, {CwdConfig}}

\* The files before the first run: the files a tool writes are all missing
\* or all left by an earlier build (out), an input file is there when it is
\* in present.  The configuration file the header tools read is the merged
\* configuration of the tree.
FileSystem(syms, t, out, present) ==
    [p \in Paths |->
        IF p \in OutPaths \/ (t = "generate-config" /\ p = CwdConfig) THEN out
        ELSE IF p \notin present THEN Absent
        ELSE IF p \in DefconfigPaths THEN DefconfigFile(p)
        ELSE File(_config_contents(syms))]

\* --------------------------------------------------------- exit statuses
\* sys.exit(<int>)
SysExit(code) == code
\* main() returns and the script ends.
NormalExit == 0
\* sys.exit(<message>) taken for a plain return.
SysExitMessage_returns == NormalExit
\* sys.exit(<message>): the message goes to stderr, the status is 1.
SysExitMessage == 1
\* An exception nobody catches ends the interpreter with status 1.
UncaughtException == 1
\* cmd_generate_headers with "return True" in its except clause too.
cmd_generate_headers_always_true(raised) == TRUE

\* cmd_generate_headers: True at its end, False from its except clause.
cmd_generate_headers(raised) == IF raised THEN FALSE ELSE TRUE

\* cmd_generate_config: True at its end, False from its except clause.
cmd_generate_config(raised) == IF raised THEN FALSE ELSE TRUE

\* gen_config.main: sys.exit(0 if success else 1)
main_exit(success) == SysExit(IF success THEN 0 ELSE 1)

Init ==
    /\ tree \in Trees
    /\ \E c \in CommandLines : tool = c[1] /\ args = c[2]
    /\ tool = "generate-config" => Len(tree) <= MaxConfigSyms
    /\ fs \in {FileSystem(tree, tool, out, present) :
                  out \in {Absent, Stale}, present \in Inputs(tool, args)}
    /\ pc = "start"
    /\ todo = <<>>
    /\ generated_files = <<>>
    /\ enabled_symbols = <<>>
    /\ stdout = <<>>
    /\ stderr = <<>>
    /\ exit_status = 0
    /\ written = <<>>
    /\ failed = FALSE
    /\ runs = 1
    /\ emits = <<>>
    /\ pre = fs
    /\ loaded = <<>>

\* One call of a header emitter and its writer: the artifact's path, the
\* symbols handed over, the lines rendered from them, the file as it was
\* before the call, whether the file was opened for writing and whether the
\* call returned.
Emit(path, symbols, lines, wrote, ok) ==
    [path |-> path, symbols |-> symbols, lines |-> lines, before |-> fs[path],
     wrote |-> wrote, ok |-> ok]

\* The process ends with the given status.
Exit(status, fails, message) ==
    /\ pc' = "exited"
    /\ exit_status' = status
    /\ failed' = (failed \/ fails)
    /\ stderr' = IF message = "" THEN stderr
                 ELSE Append(stderr, [k |-> "error", text |-> message])

\* Kconfig._contents_eq: the file can be read and holds exactly the contents.
_contents_eq(file, contents) == file.exists /\ file.lines = contents

\* ------------------------------------------- gen_config generate-headers
\* cmd_generate_headers up to its loop: load the tree, load the .config,
\* group the symbols.  load_config ends the process when Kconfig.load_config
\* raises, which it does when the file is missing (and may do on a file it
\* cannot read).
GcLoad ==
    /\ pc = "start" /\ tool = "gen_config"
    /\ LET config_file == os_path_join(Cwd, DotConfig)
       IN  \/ /\ Exit(SysExit(1), TRUE, "Error loading Kconfig")
              /\ UNCHANGED <<todo, loaded>>
           \/ /\ Exit(SysExit(1), TRUE, "Error loading config file")
              /\ UNCHANGED <<todo, loaded>>
           \/ /\ fs[config_file].exists
              /\ loaded' = Append(loaded, config_file)
              /\ pc' = "gc_generate"
              /\ todo' = SelectSeq(SortedConfigTypes,
                            LAMBDA t : group_symbols_by_location(tree, t) # <<>>)
              /\ UNCHANGED <<exit_status, failed, stderr>>
    /\ UNCHANGED <<tree, fs, tool, args, generated_files, enabled_symbols,
                   stdout, written, runs, emits, pre>>

\* One turn of the loop of cmd_generate_headers: generate_header_file for the
\* next config type.  os.makedirs or open may raise (the file is as it was);
\* open(..., 'w') empties the file and a write may raise after any number of
\* lines.  Every exception ends in the except clause of cmd_generate_headers.
GcGenerateHeader ==
    /\ pc = "gc_generate" /\ todo # <<>>
    /\ LET config_type == Head(todo)
           symbols     == group_symbols_by_location(tree, config_type)
           output_file == OUTPUT_FILE_MAPPING[config_type].file
           lines       == HeaderLines(tree, symbols, config_type)
           raise       == Exit(main_exit(cmd_generate_headers(TRUE)), TRUE,
                               "Error generating headers")
       IN  \/ /\ fs' = [fs EXCEPT ![output_file] = File(lines)]
              /\ written' = Append(written, output_file)
              /\ emits' = Append(emits, Emit(output_file, symbols, lines, TRUE, TRUE))
              /\ generated_files' = Append(generated_files, output_file)
              /\ todo' = Tail(todo)
              /\ UNCHANGED <<pc, exit_status, failed, stderr>>
           \/ /\ raise
              /\ emits' = Append(emits, Emit(output_file, symbols, lines, FALSE, FALSE))
              /\ UNCHANGED <<fs, written, generated_files, todo>>
           \/ \E k \in 0..(Len(lines) - 1) :
                /\ fs' = [fs EXCEPT ![output_file] = File(SubSeq(lines, 1, k))]
                /\ written' = Append(written, output_file)
                /\ emits' = Append(emits, Emit(output_file, symbols, lines, TRUE, FALSE))
                /\ raise
                /\ UNCHANGED <<generated_files, todo>>
    /\ UNCHANGED <<tree, tool, args, enabled_symbols, stdout, runs, pre, loaded>>

\* The loop is over: cmd_generate_headers returns True.
GcDone ==
    /\ pc = "gc_generate" /\ todo = <<>>
    /\ Exit(main_exit(cmd_generate_headers(FALSE)), FALSE, "")
    /\ UNCHANGED <<tree, fs, tool, args, todo, generated_files,
                   enabled_symbols, stdout, written, runs, emits, pre,
                   loaded>>

\* ------------------------------------------- gen_config generate-config
\* os.path.exists(path) for a process whose working directory is dir.
exists(dir, path) ==
    LET p == os_path_join(dir, path) IN p \in DOMAIN fs /\ fs[p].exists

\* cmd_generate_config up to the point where the override layer is loaded:
\* load_kconfig (which ends the process when it fails), os.chdir to the
\* directory of the root Kconfig file, the test of the defconfig there, and
\* Kconfig.load_config on the defconfig under the first working directory,
\* which raises when that file is missing (and may on a file it cannot
\* read).
CfgLoad ==
    /\ pc = "start" /\ tool = "generate-config"
    /\ LET kconfig_dir  == Dirname(os_path_join(Cwd, args.kconfig_root))
           original_cwd == Cwd
           filename     == os_path_join(original_cwd, args.defconfig_file)
           raise(e)     == Exit(main_exit(cmd_generate_config(TRUE)), TRUE, e)
       IN  \/ /\ Exit(SysExit(1), TRUE, "Error loading Kconfig")
              /\ UNCHANGED <<loaded, stdout>>
           \/ IF args.defconfig_file # NoFile
                 /\ exists(kconfig_dir, args.defconfig_file)
              THEN /\ stdout' = Append(stdout,
                                  [k |-> "info", text |-> "Loading defconfig"])
                   /\ \/ /\ fs[filename].exists
                         /\ loaded' = Append(loaded, filename)
                         /\ pc' = "cfg_write"
                         /\ UNCHANGED <<exit_status, failed, stderr>>
                      \/ /\ raise(IF fs[filename].exists
                                   THEN "Error generating config: cannot read"
                                   ELSE "Error generating config: No such file")
                         /\ UNCHANGED loaded
              ELSE /\ stdout' = Append(stdout,
                                  [k |-> "info",
                                   text |-> "No defconfig provided, using Kconfig defaults"])
                   /\ pc' = "cfg_write"
                   /\ UNCHANGED <<loaded, exit_status, failed, stderr>>
    /\ UNCHANGED <<tree, fs, tool, args, todo, generated_files,
                   enabled_symbols, written, runs, emits, pre>>

\* The symbols with the values they have once the files in loaded are read.
Resolved ==
    IF loaded = <<>> THEN tree ELSE _load_config(tree, fs[loaded[1]].lines)

\* The rest of cmd_generate_config: Kconfig.write_config(output_config) from
\* the first working directory.  A file with the same contents is left
\* alone; else the file that is there is renamed to <name>.old (_save_old),
\* and the file is opened with 'w' (which may raise) and written (which may
\* raise after any part).  Every exception ends in the except clause.
CfgWrite ==
    /\ pc = "cfg_write"
    /\ LET filename == os_path_join(Cwd, args.output_config)
           old      == os_path_join(Cwd, DotConfigOld)
           contents == _config_contents(Resolved)
           changed  == ~_contents_eq(fs[filename], contents)
           saved    == IF fs[filename].exists
                       THEN [fs EXCEPT ![old] = fs[filename],
                                       ![filename] = Absent]
                       ELSE fs
           done     == Exit(main_exit(cmd_generate_config(FALSE)), FALSE, "")
           raise    == Exit(main_exit(cmd_generate_config(TRUE)), TRUE,
                            "Error generating config: cannot write")
       IN  \/ /\ ~changed
              /\ done
              /\ UNCHANGED <<fs, written>>
           \/ /\ changed
              /\ fs' = [saved EXCEPT ![filename] = File(contents)]
              /\ written' = Append(written, filename)
              /\ done
           \/ /\ changed
              /\ fs' = saved
              /\ raise
              /\ UNCHANGED written
           \/ /\ changed
              /\ \E k \in 0..(Len(contents) - 1) :
                    fs' = [saved EXCEPT ![filename] = File(SubSeq(contents, 1, k))]
              /\ written' = Append(written, filename)
              /\ raise
    /\ UNCHANGED <<tree, tool, args, todo, generated_files, enabled_symbols,
                   stdout, runs, emits, pre, loaded>>

\* ------------------------------------------------------- gen_multiconfig
\* main up to the point where the tree and the configuration are loaded.
\* A KconfigError is caught and ends in sys.exit(message); an I/O error of
\* load_config is no KconfigError and nobody catches it.  load_config() is
\* given no file name: it reads standard_config_filename() when that file
\* exists and else returns with every symbol at its default.
McLoad ==
    /\ pc = "start" /\ tool = "gen_multiconfig"
    /\ LET filename == os_path_join(Cwd, DotConfig)
       IN  \/ /\ Exit(SysExitMessage, TRUE, "Error loading Kconfig")
              /\ UNCHANGED loaded
           \/ /\ Exit(UncaughtException, TRUE, "Traceback")
              /\ UNCHANGED loaded
           \/ /\ loaded' = IF fs[filename].exists
                            THEN Append(loaded, filename) ELSE loaded
              /\ pc' = "mc_loaded"
              /\ UNCHANGED <<exit_status, failed, stderr>>
    /\ UNCHANGED <<tree, fs, tool, args, todo, generated_files,
                   enabled_symbols, stdout, written, runs, emits, pre>>

\* if args.symbol: print the value of the symbol, or fail when the tree has
\* no symbol of that name; either way main is over.
McQuery ==
    /\ pc = "mc_loaded" /\ Truthy(args.symbol)
    /\ IF args.symbol \notin SymsNames(tree)
       THEN /\ Exit(SysExitMessage, TRUE, "Symbol not found")
            /\ UNCHANGED stdout
       ELSE /\ stdout' = Append(stdout,
                           [k |-> "value",
                            text |-> str_value(SymsGet(tree, args.symbol))])
            /\ Exit(NormalExit, FALSE, "")
    /\ UNCHANGED <<tree, fs, tool, args, todo, generated_files,
                   enabled_symbols, written, runs, emits, pre,
                   loaded>>

\* No --symbol: build files_to_symbols and filter it by the fragment.
McSelect ==
    /\ pc = "mc_loaded" /\ ~Truthy(args.symbol)
    /\ LET files_to_symbols == _build_file_to_symbols_map(tree)
           fragment == args.kconfig_fragment
       IN  IF fragment # NoFragment
           THEN IF ~MapHas(files_to_symbols, fragment)
                THEN /\ Exit(SysExit(1), TRUE, "Warning: No symbols found for fragment")
                     /\ UNCHANGED todo
                ELSE /\ todo' = SelectSeq(files_to_symbols,
                                          LAMBDA e : e.file = fragment)
                     /\ pc' = "mc_generate"
                     /\ UNCHANGED <<exit_status, failed, stderr>>
           ELSE /\ todo' = files_to_symbols
                /\ pc' = "mc_generate"
                /\ UNCHANGED <<exit_status, failed, stderr>>
    /\ UNCHANGED <<tree, fs, tool, args, generated_files, enabled_symbols,
                   stdout, written, runs, emits, pre,
                   loaded>>

\* One turn of the generation loop of main: _write_header_file for the next
\* Kconfig file, then the --check-symbols collection.  os.makedirs may raise;
\* Kconfig._write_if_changed leaves a file with the same contents alone and
\* else opens it with 'w' (which may raise, and empties the file) and writes
\* (which may raise after any part).  Nobody catches these exceptions.
\* files_to_symbols maps no file to an empty list, so "if not symbols:
\* continue" skips nothing.
McWriteHeader ==
    /\ pc = "mc_generate" /\ todo # <<>>
    /\ LET filename    == Head(todo).file
           symbols     == Head(todo).symbols
           header_path == _get_header_path(filename)
           contents    == _generate_header_content(symbols)
           changed     == ~_contents_eq(fs[header_path], contents)
           raise       == /\ Exit(UncaughtException, TRUE, "Traceback")
                          /\ UNCHANGED <<generated_files, enabled_symbols, todo>>
       IN  \/ /\ IF changed
                 THEN /\ fs' = [fs EXCEPT ![header_path] = File(contents)]
                      /\ written' = Append(written, header_path)
                 ELSE UNCHANGED <<fs, written>>
              /\ emits' = Append(emits, Emit(header_path, symbols, contents, changed, TRUE))
              /\ stderr' = Append(stderr,
                             [k |-> IF changed THEN "Generated" ELSE "Unchanged",
                              path |-> header_path])
              /\ generated_files' = Append(generated_files, header_path)
              /\ enabled_symbols' =
                    IF args.check_symbols
                    THEN enabled_symbols \o EnabledPairs(symbols)
                    ELSE enabled_symbols
              /\ todo' = Tail(todo)
              /\ UNCHANGED <<pc, exit_status, failed>>
           \/ /\ raise
              /\ emits' = Append(emits, Emit(header_path, symbols, contents, FALSE, FALSE))
              /\ UNCHANGED <<fs, written>>
           \/ /\ changed
              /\ \E k \in 0..(Len(contents) - 1) :
                    fs' = [fs EXCEPT ![header_path] = File(SubSeq(contents, 1, k))]
              /\ written' = Append(written, header_path)
              /\ emits' = Append(emits, Emit(header_path, symbols, contents, TRUE, FALSE))
              /\ raise
    /\ UNCHANGED <<tree, tool, args, stdout, runs, pre, loaded>>

\* The loop is over: print what was asked for and return.
McDone ==
    /\ pc = "mc_generate" /\ todo = <<>>
    /\ stdout' = stdout
                 \o (IF args.print_headers
                     THEN [i \in DOMAIN generated_files |->
                             [k |-> "path", path |-> generated_files[i]]]
                     ELSE <<>>)
                 \o (IF args.check_symbols
                     THEN <<[k |-> "enabled", pairs |-> enabled_symbols]>>
                     ELSE <<>>)
    /\ Exit(NormalExit, FALSE, "")
    /\ UNCHANGED <<tree, fs, tool, args, todo, generated_files,
                   enabled_symbols, written, runs, emits, pre,
                   loaded>>

\* ------------------------------------------------------------ the runs
\* A run that succeeded is followed by the same command line again, on the
\* files it left (the build asks for the headers once more).
Rerun ==
    /\ pc = "exited" /\ exit_status = 0 /\ runs < MaxRuns
    /\ pc' = "start"
    /\ runs' = runs + 1
    /\ pre' = fs
    /\ todo' = <<>>
    /\ generated_files' = <<>>
    /\ enabled_symbols' = <<>>
    /\ stdout' = <<>>
    /\ stderr' = <<>>
    /\ exit_status' = 0
    /\ written' = <<>>
    /\ failed' = FALSE
    /\ emits' = <<>>
    /\ loaded' = <<>>
    /\ UNCHANGED <<tree, fs, tool, args>>

Next ==
    \/ GcLoad
    \/ GcGenerateHeader
    \/ GcDone
    \/ McLoad
    \/ McQuery
    \/ McSelect
    \/ McWriteHeader
    \/ McDone
    \/ CfgLoad
    \/ CfgWrite
    \/ Rerun

Spec == Init /\ [][Next]_vars

\* ============================================================== the claims
\* The "#define" lines of a symbol (by name) among the lines of a file.
SymDefines(lines, name) ==
    SelectSeq(lines, LAMBDA l : l.k = "define" /\ l.name = name)

\* The "#define" line of one macro with value 1.
IsDefineOne(line, sfx) ==
    line.k = "define" /\ line.sfx = sfx /\ line.val = <<"1">> /\ ~line.quoted

\* The run generates every header: gen_config always, gen_multiconfig when it
\* is given neither a symbol nor a fragment.
FullGeneration ==
    \/ tool = "gen_config"
    \/ tool = "gen_multiconfig" /\ args.symbol \in {None, ""}
                                /\ args.kconfig_fragment = NoFragment

Succeeded == pc = "exited" /\ exit_status = 0

\* C1: every bool or tristate symbol handed to a header emitter gets exactly
\* one define with value 1 when it is on, exactly one define of <NAME>_MODULE
\* with value 1 when it is a module, and no macro line at all when it is off,
\* in both emitters.
C1_TriStateRendering ==
    \A i \in DOMAIN emits : emits[i].ok =>
        \A j \in DOMAIN emits[i].symbols :
            LET sym == emits[i].symbols[j]
                d   == SymDefines(emits[i].lines, sym.name)
            IN  sym.type \in {BOOL, TRISTATE} =>
                    CASE sym.tri = 2 -> Len(d) = 1 /\ IsDefineOne(d[1], "")
                      [] sym.tri = 1 -> Len(d) = 1 /\ IsDefineOne(d[1], "_MODULE")
                      [] OTHER       -> d = <<>>

\* C2: the second of two runs in a row renders, for every artifact, the
\* content the first run left, and writes no file; and in any run a file is
\* written only when the new content differs from the content it has.
C2_IdempotentWriteIfChanged ==
    /\ (Succeeded /\ runs >= 2) =>
          /\ written = <<>>
          /\ \A i \in DOMAIN emits :
                /\ emits[i].lines = pre[emits[i].path].lines
                /\ ~emits[i].wrote
    /\ \A i \in DOMAIN emits :
          emits[i].wrote =>
              ~(emits[i].before.exists /\ emits[i].before.lines = emits[i].lines)

\* The artifact a declaring file maps to, relative to the output directory
\* (no path: the file maps to no artifact).
ExpectedArtifact(t, file) ==
    IF t = "gen_config"
    THEN CASE file = RootK    -> <<"boards", "system_config.h">>
           [] file = BoardsK  -> <<"boards", "board_config.h">>
           [] file = GpioK    -> <<"drivers", "driver_config.h">>
           [] file = GpioAdcK -> <<"drivers", "driver_config.h">>
           [] file = AppK     -> <<"application", "app_config.h">>
           [] OTHER           -> <<>>
    ELSE CASE file = RootK    -> <<"config.h">>
           [] file = BoardsK  -> <<"boards", "config.h">>
           [] file = GpioK    -> <<"drivers", "gpio", "config.h">>
           [] file = GpioAdcK -> <<"drivers", "gpio", "config.h">>
           [] file = AppK     -> <<"application", "config.h">>
           [] file = LibK     -> <<"lib", "config.h">>
           [] OTHER           -> <<>>

\* The symbols an emitter renders a macro line for: gen_config every symbol,
\* gen_multiconfig the symbols written to the configuration that are not off.
HasMacro(t, sym) ==
    \/ t = "gen_config"
    \/ /\ sym.w2c
       /\ sym.type \in {BOOL, TRISTATE} => sym.tri >= 1

\* The text a query prints for a symbol.
ValueText(sym) ==
    IF sym.type \in {BOOL, TRISTATE}
    THEN CASE sym.tri = 2 -> <<"y">> [] sym.tri = 1 -> <<"m">> [] OTHER -> <<"n">>
    ELSE sym.val

\* C3: a symbol is emitted only into an artifact one of its declaring files
\* maps to (drivers/gpio/Kconfig: the drivers/gpio artifact, the root
\* Kconfig: the top-level or system artifact); the artifact of its first
\* declaring file gets it in every full generation; a symbol whose declaring
\* file matches no rule is in no artifact, and a query still finds it.
C3_LocationClassification ==
    /\ \A i \in DOMAIN emits : \A k \in DOMAIN tree :
          SymDefines(emits[i].lines, tree[k].name) # <<>> =>
              \E n \in DOMAIN tree[k].nodes :
                  ExpectedArtifact(tool, tree[k].nodes[n]) = emits[i].path
    /\ (Succeeded /\ FullGeneration) =>
          \A k \in DOMAIN tree :
              LET path == ExpectedArtifact(tool, tree[k].nodes[1]) IN
              IF path # <<>>
              THEN HasMacro(tool, tree[k]) =>
                      \E i \in DOMAIN emits :
                          /\ emits[i].ok /\ emits[i].path = path
                          /\ SymDefines(emits[i].lines, tree[k].name) # <<>>
              ELSE \A i \in DOMAIN emits :
                      SymDefines(emits[i].lines, tree[k].name) = <<>>
    /\ (pc = "exited" /\ tool = "gen_multiconfig" /\ ~failed
            /\ args.symbol \notin {None, ""}) =>
          \A k \in DOMAIN tree :
              tree[k].name = args.symbol =>
                  /\ exit_status = 0
                  /\ stdout = <<[k |-> "value", text |-> ValueText(tree[k])]>>

\* C3 witness: gen_config has generated headers for a tree with a symbol of
\* lib/Kconfig, which no rule matches.
C3_Witness ==
    /\ Succeeded /\ tool = "gen_config" /\ emits # <<>>
    /\ \E k \in DOMAIN tree : tree[k].nodes[1] = LibK

\* C4: a symbol declared in several files has its macro in the artifact of
\* every declaring file that maps to one, not only in the first one's.
C4_EveryDeclaringLocation ==
    (Succeeded /\ FullGeneration) =>
        \A k \in DOMAIN tree : \A n \in DOMAIN tree[k].nodes :
            LET path == ExpectedArtifact(tool, tree[k].nodes[n]) IN
            (path # <<>> /\ HasMacro(tool, tree[k])) =>
                \E i \in DOMAIN emits :
                    /\ emits[i].ok /\ emits[i].path = path
                    /\ SymDefines(emits[i].lines, tree[k].name) # <<>>

\* The lines that define the derived macro BOARD_LED_COUNT.
LedCountLines(lines) == SymDefines(lines, "BOARD_LED_COUNT")

\* The number of BOARD_HAS_LED1..3 symbols that exist and are on.
ExpectedLedCount ==
    Cardinality({n \in LedNames :
        \E k \in DOMAIN tree :
            /\ tree[k].name = n
            /\ tree[k].type \in {BOOL, TRISTATE}
            /\ tree[k].tri = 2})

BoardConfigH == <<"boards", "board_config.h">>

\* C5: BOARD_LED_COUNT is the number of the symbols BOARD_HAS_LED1..3 that
\* exist and are on; the board_config artifact has it exactly once, after
\* every symbol's macro and right before the include-guard close, and no
\* other artifact has it.
C5_LedCount ==
    /\ \A i \in DOMAIN emits :
          LET lines == emits[i].lines
              n     == Len(lines)
          IN  IF tool = "gen_config" /\ emits[i].path = BoardConfigH
              THEN /\ Len(LedCountLines(lines)) = 1
                   /\ n >= 2
                   /\ lines[n].k = "endif"
                   /\ lines[n - 1] =
                         Define("", "BOARD_LED_COUNT", "", 1,
                                Str(ExpectedLedCount), FALSE)
                   /\ \A j \in 1..n :
                         (lines[j].k = "define" /\ lines[j].name \in SymNames)
                            => j < n - 1
              ELSE LedCountLines(lines) = <<>>
    /\ \A p \in OutPaths \ {BoardConfigH} : LedCountLines(fs[p].lines) = <<>>
    /\ \A i \in DOMAIN emits :
          (emits[i].ok /\ emits[i].path = BoardConfigH /\ tool = "gen_config")
             => Len(LedCountLines(fs[BoardConfigH].lines)) = 1

\* C5 witness: board_config.h has been generated for LED1 on, LED2 on and
\* LED3 off.
C5_Witness ==
    /\ Succeeded /\ tool = "gen_config"
    /\ \E i \in DOMAIN emits : emits[i].ok /\ emits[i].path = BoardConfigH
    /\ Len(tree) = 3
    /\ \A k \in DOMAIN tree : tree[k].name \in LedNames /\ tree[k].type = BOOL
    /\ tree[1].tri = 2 /\ tree[2].tri = 2 /\ tree[3].tri = 0
    /\ fs[BoardConfigH].lines[Len(fs[BoardConfigH].lines) - 1].val = <<"2">>

\* The run is a query: gen_multiconfig with --symbol <name>.
IsQueryRun == tool = "gen_multiconfig" /\ args.symbol \notin {None, ""}

C7_ExitStatus ==
    (pc = "exited" /\ failed) => exit_status # 0

\* C7 witness: a run has written one header and failed on the next.
C7_Witness ==
    /\ pc = "exited" /\ failed /\ exit_status # 0
    /\ generated_files # <<>>
    /\ \E i \in DOMAIN emits : emits[i].ok /\ emits[i].wrote
    /\ \E i \in DOMAIN emits : ~emits[i].ok

\* C8: a failed write leaves the destination as it was before the write: an
\* existing file keeps its content, a missing file is not left with a part.
C8_NoPartialArtifact ==
    \A i \in DOMAIN emits :
        ~emits[i].ok => fs[emits[i].path] = emits[i].before

\* C9: in one run no artifact path is written twice, and no two groups of
\* symbols map to the same path.
C9_WrittenOnce ==
    /\ \A i, j \in DOMAIN written : i # j => written[i] # written[j]
    /\ \A i, j \in DOMAIN emits : i # j => emits[i].path # emits[j].path

\* The name=value pairs of the bool and tristate symbols that are on or a
\* module, in declaration order.
RECURSIVE ExpectedEnabled(_)
ExpectedEnabled(syms) ==
    IF syms = <<>> THEN <<>>
    ELSE LET s == Head(syms) IN
         (IF s.type \in {BOOL, TRISTATE} /\ s.tri >= 1
          THEN <<[name |-> s.name, val |-> ValueText(s)]>> ELSE <<>>)
         \o ExpectedEnabled(Tail(syms))

\* C10: --check-symbols prints a name=value pair for exactly the bool and
\* tristate symbols that are on or a module, in declaration order.
C10_EnabledSymbols ==
    (Succeeded /\ tool = "gen_multiconfig" /\ FullGeneration
        /\ args.check_symbols) =>
            \E m \in DOMAIN stdout :
                /\ stdout[m].k = "enabled"
                /\ stdout[m].pairs = ExpectedEnabled(tree)

\* The file the defconfig argument names when it is resolved against the
\* directory the tool was started in (no file: no argument).
OverrideFile ==
    IF args.defconfig_file = NoFile THEN NoFile
    ELSE os_path_join(Cwd, args.defconfig_file)

\* generate-config is asked for an override file that does not exist.
OverrideAbsent ==
    /\ tool = "generate-config"
    /\ OverrideFile # NoFile
    /\ ~fs[OverrideFile].exists

\* The run generates headers: generate-headers, or gen_multiconfig that is
\* not a query.
HeaderGeneration ==
    \/ tool = "gen_config"
    \/ tool = "gen_multiconfig" /\ ~IsQueryRun

\* C11: a missing override file makes generate-config resolve with the
\* declared defaults, and the operation still succeeds and writes the merged
\* configuration (unless loading the tree or writing the file fails); a
\* missing configuration file is fatal for header generation: the run ends
\* with a non-zero status and writes no header.
C11_MissingInput ==
    /\ (OverrideAbsent /\ pc = "cfg_write") => loaded = <<>>
    /\ (OverrideAbsent /\ pc = "exited") =>
          \/ /\ exit_status = 0
             /\ fs[CwdConfig] = File(_config_contents(tree))
          \/ \E m \in DOMAIN stderr :
                stderr[m].text \in {"Error loading Kconfig",
                                    "Error generating config: cannot write"}
    /\ (HeaderGeneration /\ ~pre[CwdConfig].exists /\ pc # "start") =>
          /\ pc = "exited"
          /\ exit_status # 0
          /\ written = <<>> /\ emits = <<>> /\ fs = pre

\* The literal of a hex symbol as a header has it: the resolved text, with
\* 0x before it when it begins with neither 0x nor 0X.
HexLiteral(val) ==
    IF Len(val) >= 2 /\ val[1] = "0" /\ val[2] \in {"x", "X"}
    THEN val ELSE <<"0", "x">> \o val

\* C12: every hex symbol a header emitter writes a macro for has one macro
\* line whose literal begins with 0x or 0X: the resolved text when it has
\* such a prefix, else the text with 0x before it (2a becomes 0x2a); an int
\* symbol has one macro line with its resolved text as it is.
C12_HexPrefix ==
    \A i \in DOMAIN emits : \A j \in DOMAIN emits[i].symbols :
        LET sym == emits[i].symbols[j]
            d   == SymDefines(emits[i].lines, sym.name)
        IN  (sym.type \in {HEX, INT} /\ HasMacro(tool, sym)) =>
                /\ Len(d) = 1
                /\ ~d[1].quoted
                /\ d[1].val = IF sym.type = HEX THEN HexLiteral(sym.val)
                              ELSE sym.val

\* C13: in generate-config the file whose existence decides between loading
\* the defconfig and using the defaults is the file that is loaded: once the
\* decision is taken, the defconfig argument resolved against the directory
\* the tool was started in is loaded when it names an existing file, and
\* nothing is loaded when it does not (or there is no argument); no load is
\* tried on a file that does not exist.  This is so wherever the root
\* Kconfig file is.
C13_DecidingFileIsLoaded ==
    tool = "generate-config" =>
        /\ pc = "cfg_write" =>
              loaded = IF OverrideFile # NoFile /\ fs[OverrideFile].exists
                       THEN <<OverrideFile>> ELSE <<>>
        /\ \A m \in DOMAIN stderr :
              stderr[m].text # "Error generating config: No such file"

====
